---------------------------- MODULE Spec2Model ----------------------------
(***************************************************************************)
(* Model of the Camera component of OpenImageDebugger                      *)
(* (src/src/visualization/components/camera.cpp) and of the frame-rate     *)
(* setting of MainWindow::initialize_settings                              *)
(* (src/src/ui/main_window/initialization.cpp).                            *)
(*                                                                         *)
(* Numbers.  The C++ code computes in 32-bit floats.  The model computes   *)
(* in exact rational arithmetic: a float is a pair <<n, d>> with d > 0 and *)
(* gcd(n, d) = 1, so equality of numbers is equality of pairs.  Rounding   *)
(* of the float operations is therefore NOT modelled; every statement      *)
(* below about equality of camera values is a statement about the          *)
(* real-number algebra the code implements.  zoom_power_ and the zoom      *)
(* deltas are kept integer-valued, so that std::pow(zoom_factor, p) is a   *)
(* rational number.                                                        *)
(*                                                                         *)
(* Matrices.  Every mat4 the Camera touches is an affine map of the plane  *)
(* (z is never mixed with x and y, and the last row is 0 0 0 1), so a mat4 *)
(* is the record [a, b, c, d, tx, ty] standing for                         *)
(*        | a  b  .  tx |                                                  *)
(*        | c  d  .  ty |                                                  *)
(*        | .  .  1  .  |                                                  *)
(*        | 0  0  0  1  |                                                  *)
(* and a vec4 is the record [x, y, w] (its z component is always 0).       *)
(* m(0,0) is m.a, m(1,1) is m.d, m(0,3) is m.tx and m(1,3) is m.ty.        *)
(***************************************************************************)
EXTENDS Integers, Sequences, FiniteSets, TLC

----------------------------------------------------------------------------
(* Exact arithmetic standing for the float operators of C++.               *)

\* Each operator below computes its arguments once and then works on their
\* values: X(p, q) is XOf at the values of p and q.

Abs(n) == IF n < 0 THEN -n ELSE n

RECURSIVE Gcd(_, _)
Gcd(m, n) ==
    IF n = 0 THEN m ELSE CHOOSE g \in {Gcd(n, r) : r \in {m % n}} : TRUE

\* The number n/d in lowest terms with a positive denominator.
NormOf(n, d) ==
    IF d = 1 THEN <<n, 1>>
    ELSE LET g == Gcd(Abs(n), Abs(d))
             s == IF d < 0 THEN -1 ELSE 1
         IN  <<(s * n) \div g, (s * d) \div g>>

Norm(n, d) == CHOOSE r \in {NormOf(u, v) : u \in {n}, v \in {d}} : TRUE

R(n) == <<n, 1>>

Zero == R(0)

One == R(1)

NegOf(p) == <<-p[1], p[2]>>

RNeg(p) == CHOOSE r \in {NegOf(u) : u \in {p}} : TRUE

AddOf(p, q) ==
    IF p[1] = 0 THEN q
    ELSE IF q[1] = 0 THEN p
    ELSE IF p[2] = q[2] THEN Norm(p[1] + q[1], p[2])
    ELSE LET g == Gcd(p[2], q[2])
         IN  Norm(p[1] * (q[2] \div g) + q[1] * (p[2] \div g),
                  p[2] * (q[2] \div g))

RAdd(p, q) == CHOOSE r \in {AddOf(u, v) : u \in {p}, v \in {q}} : TRUE

RSub(p, q) == RAdd(p, RNeg(q))

\* Cross-reduced product: the factors are in lowest terms, so is the result.
MulOf(p, q) ==
    IF p[1] = 0 \/ q[1] = 0 THEN <<0, 1>>
    ELSE IF p = <<1, 1>> THEN q
    ELSE IF q = <<1, 1>> THEN p
    ELSE LET g1 == Gcd(Abs(p[1]), q[2])
             g2 == Gcd(Abs(q[1]), p[2])
         IN  <<(p[1] \div g1) * (q[1] \div g2), (p[2] \div g2) * (q[2] \div g1)>>

RMul(p, q) == CHOOSE r \in {MulOf(u, v) : u \in {p}, v \in {q}} : TRUE

\* 1/p; only applied to non-zero numbers.
InvOf(p) == IF p[1] < 0 THEN <<-p[2], -p[1]>> ELSE <<p[2], p[1]>>

RInv(p) == CHOOSE r \in {InvOf(u) : u \in {p}} : TRUE

RDiv(p, q) == RMul(p, RInv(q))

LtOf(p, q) ==
    IF p[2] = q[2] THEN p[1] < q[1]
    ELSE LET g == Gcd(p[2], q[2])
         IN  p[1] * (q[2] \div g) < q[1] * (p[2] \div g)

RLt(p, q) == CHOOSE r \in {LtOf(u, v) : u \in {p}, v \in {q}} : TRUE

RGt(p, q) == RLt(q, p)

RLe(p, q) == ~RLt(q, p)

AbsOf(p) == <<Abs(p[1]), p[2]>>

RAbs(p) == CHOOSE r \in {AbsOf(u) : u \in {p}} : TRUE

\* b^k for a rational b and an integer k: std::pow on integer-valued exponents.
RECURSIVE IPow(_, _)
IPow(n, k) == IF k = 0 THEN 1 ELSE n * IPow(n, k - 1)

PowOf(b, k) ==
    IF k >= 0
    THEN <<IPow(b[1], k), IPow(b[2], k)>>
    ELSE RInv(<<IPow(b[1], -k), IPow(b[2], -k)>>)

RPow(b, k) == CHOOSE r \in {PowOf(u, v) : u \in {b}, v \in {k}} : TRUE

----------------------------------------------------------------------------
(* vec4 and mat4 (math/linear_algebra.h), restricted to the plane.         *)

Vec4(x, y, w) == [x |-> x, y |-> y, w |-> w]

VecSub(u, v) == [x |-> RSub(u.x, v.x), y |-> RSub(u.y, v.y), w |-> RSub(u.w, v.w)]

VecScalar(u, s) == [x |-> RMul(u.x, s), y |-> RMul(u.y, s), w |-> RMul(u.w, s)]

VecNeg(u) == [x |-> RNeg(u.x), y |-> RNeg(u.y), w |-> RNeg(u.w)]

Mat(a, b, c, d, tx, ty) == [a |-> a, b |-> b, c |-> c, d |-> d, tx |-> tx, ty |-> ty]

Identity == Mat(One, Zero, Zero, One, Zero, Zero)

\* mat4::translation(v): adds v's x and y (v's w is not used).
Translation(v) == Mat(One, Zero, Zero, One, v.x, v.y)

\* mat4::scale(vec4(sx, sy, 1, 1)): a diagonal matrix.
Scale(sx, sy) == Mat(sx, Zero, Zero, sy, Zero, Zero)

\* mat4::set_ortho_projection(right, top, -1, 1): symmetric orthographic
\* projection; NDC x = px / right, NDC y = py / top.
Ortho(right, top) == Mat(RInv(right), Zero, Zero, RInv(top), Zero, Zero)

\* Rotation of the plane by quarter turns (the poses a displayed buffer takes).
Rotation(q) ==
    CASE q = 0 -> Identity
      [] q = 1 -> Mat(Zero, RNeg(One), One, Zero, Zero, Zero)
      [] q = 2 -> Mat(RNeg(One), Zero, Zero, RNeg(One), Zero, Zero)
      [] q = 3 -> Mat(Zero, One, RNeg(One), Zero, Zero, Zero)

\* m * n: n is applied first.
MatMul(m, n) ==
    Mat(RAdd(RMul(m.a, n.a), RMul(m.b, n.c)),
        RAdd(RMul(m.a, n.b), RMul(m.b, n.d)),
        RAdd(RMul(m.c, n.a), RMul(m.d, n.c)),
        RAdd(RMul(m.c, n.b), RMul(m.d, n.d)),
        RAdd(RAdd(RMul(m.a, n.tx), RMul(m.b, n.ty)), m.tx),
        RAdd(RAdd(RMul(m.c, n.tx), RMul(m.d, n.ty)), m.ty))

\* m * v for a homogeneous vector v.
MatVec(m, v) ==
    Vec4(RAdd(RAdd(RMul(m.a, v.x), RMul(m.b, v.y)), RMul(m.tx, v.w)),
         RAdd(RAdd(RMul(m.c, v.x), RMul(m.d, v.y)), RMul(m.ty, v.w)),
         v.w)

\* The inverse of the affine map m whose linear part has the inverse
\* | ia ib |
\* | ic id |
InvAffine(m, ia, ib, ic, id) ==
    Mat(ia, ib, ic, id,
        RNeg(RAdd(RMul(ia, m.tx), RMul(ib, m.ty))),
        RNeg(RAdd(RMul(ic, m.tx), RMul(id, m.ty))))

\* The inverse of m, whose linear part has determinant det.
InvDet(m, det) ==
    InvAffine(m, RDiv(m.d, det), RNeg(RDiv(m.b, det)),
                 RNeg(RDiv(m.c, det)), RDiv(m.a, det))

\* m.inv(); m must be invertible.
MatInv(m) == InvDet(m, RSub(RMul(m.a, m.d), RMul(m.b, m.c)))

----------------------------------------------------------------------------
(* Bounds of the model.                                                    *)

\* Host events dispatched to the camera after post_initialize.
MaxSteps == 3

\* zoom_power_ is kept within -MaxPow .. MaxPow by the zoom inputs offered.
MaxPow == 3
MinFitSize == 7
MaxFitSize == 13
MaxKeySteps == 1
MaxRate == 40

----------------------------------------------------------------------------
(* The environment: the GLCanvas, the "buffer" GameObject and the inputs.  *)

\* Camera::zoom_factor (camera.h), the zoom base 1.1.
zoom_factor == <<11, 10>>

\* Sizes (width, height) the GLCanvas takes.
CanvasSizes == {<<11, 11>>, <<9, 12>>}

\* The pose of a buffer GameObject that was moved one unit to the right.
Shifted == Mat(One, Zero, Zero, One, One, Zero)

\* The "buffer" GameObjects displayed: the extents buffer_width_f and
\* buffer_height_f of the Buffer component, and the GameObject's pose.
Buffers ==
    {[width |-> 10, height |-> 10, pose |-> Identity],
     [width |-> 10, height |-> 8,  pose |-> Identity],
     [width |-> 10, height |-> 8,  pose |-> Rotation(1)],
     [width |-> 10, height |-> 10, pose |-> Shifted]}

\* Calls of scale_at: an anchor (x, y, 0, 1) in normalized device
\* coordinates and a zoom step.
Zooms ==
    {[ndc |-> Vec4(Zero, Zero, One), delta |-> 1],
     [ndc |-> Vec4(Zero, Zero, One), delta |-> -2],
     [ndc |-> Vec4(One, <<-1, 2>>, One), delta |-> -1]}

\* Wheel events: the mouse position in pixels and the scroll step.
Scrolls == {[mouse_x |-> 2, mouse_y |-> 7, delta |-> 1]}

\* Targets of move_to, in buffer coordinates.
Targets == {<<R(0), R(0)>>, <<R(3), <<5, 2>>>>}

\* Pixel deltas of mouse drags.
Drags == {<<10, 5>>, <<-10, -5>>}

\* Keys held down when the host polls or dispatches a key press.
KeySets ==
    {{"Plus", "Up"},
     {"Control", "Plus", "Minus", "Up", "Down"},
     {"Control", "Minus", "Down", "Left", "Right"}}

----------------------------------------------------------------------------
(* State.                                                                  *)

VARIABLES
    scene,      \* the Camera's members, the pose of its GameObject, and
                \* whether the GameObject was asked for a render update
    canvas,     \* gl_canvas_: [width, height, mouse_x, mouse_y]
    buffer,     \* the "buffer" GameObject: [width, height, pose]
    phase,      \* "constructed" until post_initialize ran, then "ready"
    last,       \* the call the host made last, with its arguments and result
    before,     \* scene as it was when that call began
    run,        \* the current run of consecutive zooms at the NDC origin, or
                \* of consecutive drags: [kind, start, sum_x, sum_y]
    fit,        \* [power, sum]: zoom_power_ as the last auto-fit left it, and
                \* the sum of the deltas scale_at applied since
    steps,      \* number of host events dispatched so far
    main_window \* the MainWindow: [stored, render_framerate_, initialized]

vars ==
    <<scene, canvas, buffer, phase, last, before, run, fit, steps, main_window>>

----------------------------------------------------------------------------
(* Camera (camera.cpp).  Each operator takes the scene and returns the     *)
(* scene the C++ member function leaves behind.                            *)

\* Camera::compute_zoom
compute_zoom(s) == RPow(zoom_factor, s.zoom_power_)

\* The pose update_object_pose computes.
ObjectPose(s) ==
    MatMul(s.scale_,
           Translation(Vec4(RNeg(s.camera_pos_x_), RNeg(s.camera_pos_y_), One)))

\* Camera::update_object_pose
update_object_pose(s) == [s EXCEPT !.pose = ObjectPose(s)]

\* window_resized that also drops the pan.
window_resized_resets_pan(s, w, h) ==
    [s EXCEPT !.projection = Ortho(RDiv(R(w), R(2)), RDiv(R(h), R(2))),
              !.canvas_width_ = w,
              !.canvas_height_ = h,
              !.camera_pos_x_ = Zero,
              !.camera_pos_y_ = Zero]

\* Camera::window_resized
window_resized(s, w, h) ==
    [s EXCEPT !.projection = Ortho(RDiv(R(w), R(2)), RDiv(R(h), R(2))),
              !.canvas_width_ = w,
              !.canvas_height_ = h]

\* GameObject::request_render_update
request_render_update(s) == [s EXCEPT !.render_requested = TRUE]

\* mat4::scale(vec4(zoom, zoom, 1.0f, 1.0f))
ZoomScale(zoom) == Scale(zoom, zoom)

\* const float zoom = 1.0f / compute_zoom(); scale_ = mat4::scale(...)
RebuildScale(s) == [s EXCEPT !.scale_ = ZoomScale(RInv(compute_zoom(s)))]

\* buf_dim.x() = std::abs(buf_dim.x()); buf_dim.y() = std::abs(buf_dim.y())
AbsDim(v) == <<RAbs(v.x), RAbs(v.y)>>

\* buf_dim of set_initial_zoom: the buffer's extents through the buffer's
\* pose, made positive.
BufDim(buf) == AbsDim(MatVec(buf.pose, Vec4(R(buf.width), R(buf.height), One)))

\* canvas > new_zoom * buf_dim, in both directions.
InsideCanvas(new_zoom, cw, ch, dim) ==
    RGt(cw, RMul(new_zoom, dim[1])) /\ RGt(ch, RMul(new_zoom, dim[2]))

\* canvas < new_zoom * buf_dim, in some direction.
OutsideCanvas(new_zoom, cw, ch, dim) ==
    RLt(cw, RMul(new_zoom, dim[1])) \/ RLt(ch, RMul(new_zoom, dim[2]))

\* The zoom-in loop going on while the buffer fits in some direction.
ZoomInCondEither(p, cw, ch, dim) ==
    \/ RGt(cw, RMul(RPow(zoom_factor, p), dim[1]))
    \/ RGt(ch, RMul(RPow(zoom_factor, p), dim[2]))

\* The condition of the zoom-in loop, at zoom power p.
ZoomInCond(p, cw, ch, dim) == InsideCanvas(RPow(zoom_factor, p), cw, ch, dim)

\* The condition of the zoom-out loop, at zoom power p.
ZoomOutCond(p, cw, ch, dim) == OutsideCanvas(RPow(zoom_factor, p), cw, ch, dim)

\* The zoom-in loop: the first power from p on at which the loop stops.
RECURSIVE ZoomInLoop(_, _, _, _)
ZoomInLoop(p, cw, ch, dim) ==
    IF ZoomInCond(p, cw, ch, dim) THEN ZoomInLoop(p + 1, cw, ch, dim) ELSE p

\* The zoom-out loop: the first power from p down at which the loop stops.
RECURSIVE ZoomOutLoop(_, _, _, _)
ZoomOutLoop(p, cw, ch, dim) ==
    IF ZoomOutCond(p, cw, ch, dim) THEN ZoomOutLoop(p - 1, cw, ch, dim) ELSE p

\* zoom_power_ as set_initial_zoom leaves it, for a canvas of cw x ch.
FitPower(cw, ch, dim) ==
    IF InsideCanvas(One, cw, ch, dim)
    THEN ZoomInLoop(1, cw, ch, dim) - 1
    ELSE IF OutsideCanvas(One, cw, ch, dim)
         THEN ZoomOutLoop(-1, cw, ch, dim)
         ELSE 0

\* Camera::set_initial_zoom
set_initial_zoom(s, buf) ==
    RebuildScale(
        [s EXCEPT !.zoom_power_ =
            FitPower(R(s.canvas_width_), R(s.canvas_height_), BufDim(buf))])

\* post_initialize handing the canvas's height as width and its width as
\* height.
post_initialize_swapped(s, cv, buf) ==
    update_object_pose(
        set_initial_zoom(window_resized(s, cv.height, cv.width), buf))

\* Camera::post_initialize
post_initialize(s, cv, buf) ==
    update_object_pose(
        set_initial_zoom(window_resized(s, cv.width, cv.height), buf))

\* vp_inv of scale_at
VpInv(s) == MatMul(s.pose, MatInv(s.projection))

\* center_pos computed without scale_.inv().
CenterPosUnscaled(s, center_ndc) == MatVec(VpInv(s), center_ndc)

\* center_pos of scale_at
CenterPos(s, center_ndc) ==
    MatVec(MatMul(MatInv(s.scale_), VpInv(s)), center_ndc)

\* scale_ * translation(center_pos) * scale(delta_zoom) * translation(-center_pos)
Recompose(sc, center_pos, delta_zoom) ==
    MatMul(MatMul(MatMul(sc, Translation(center_pos)), ZoomScale(delta_zoom)),
           Translation(VecNeg(center_pos)))

\* scale_at that leaves the translation in scale_ (lines 228-229 missing).
ScaleAtStoreKeepsTranslation(s, sc, delta) ==
    update_object_pose(
        [s EXCEPT !.camera_pos_x_ = RSub(@, RDiv(sc.tx, sc.a)),
                  !.camera_pos_y_ = RSub(@, RDiv(sc.ty, sc.d)),
                  !.scale_ = sc,
                  !.zoom_power_ = @ + delta])

\* scale_at folding the translation of scale_ into the camera position
\* with the wrong sign.
ScaleAtStoreAddsPan(s, sc, delta) ==
    update_object_pose(
        [s EXCEPT !.camera_pos_x_ = RAdd(@, RDiv(sc.tx, sc.a)),
                  !.camera_pos_y_ = RAdd(@, RDiv(sc.ty, sc.d)),
                  !.scale_ = [sc EXCEPT !.tx = Zero, !.ty = Zero],
                  !.zoom_power_ = @ + delta])

\* scale_at that does not add delta to zoom_power_ (line 233 missing).
ScaleAtStoreDropsDelta(s, sc, delta) ==
    update_object_pose(
        [s EXCEPT !.camera_pos_x_ = RSub(@, RDiv(sc.tx, sc.a)),
                  !.camera_pos_y_ = RSub(@, RDiv(sc.ty, sc.d)),
                  !.scale_ = [sc EXCEPT !.tx = Zero, !.ty = Zero]])

\* The end of scale_at, from the recomposed scale matrix sc on: the pan takes
\* over sc's translation, which is zeroed; zoom_power_ grows by delta.
ScaleAtStore(s, sc, delta) ==
    update_object_pose(
        [s EXCEPT !.camera_pos_x_ = RSub(@, RDiv(sc.tx, sc.a)),
                  !.camera_pos_y_ = RSub(@, RDiv(sc.ty, sc.d)),
                  !.scale_ = [sc EXCEPT !.tx = Zero, !.ty = Zero],
                  !.zoom_power_ = @ + delta])

\* scale_at scaling by zoom_factor^delta where the code has zoom_factor^-delta.
scale_at_inverted(s, center_ndc, delta) ==
    ScaleAtStore(s, Recompose(s.scale_, CenterPos(s, center_ndc),
                              RPow(zoom_factor, delta)), delta)

\* Camera::scale_at
scale_at(s, center_ndc, delta) ==
    ScaleAtStore(s,
                 Recompose(s.scale_, CenterPos(s, center_ndc),
                           RPow(zoom_factor, -delta)),
                 delta)

\* mouse_pos_ndc of scroll_callback
MouseNdc(cv) ==
    Vec4(RDiv(RMul(R(2), RSub(R(cv.mouse_x), RDiv(R(cv.width), R(2)))),
              R(cv.width)),
         RDiv(RMul(R(-2), RSub(R(cv.mouse_y), RDiv(R(cv.height), R(2)))),
              R(cv.height)),
         One)

\* Camera::scroll_callback
scroll_callback(s, cv, delta) == scale_at(s, MouseNdc(cv), delta)

ArrowKeys == {"Left", "Right", "Up", "Down"}

\* delta_pos with Down looked at before Up and Right before Left.
DeltaPosDownRightFirst(keys) ==
    <<IF "Right" \in keys THEN R(1) ELSE IF "Left" \in keys THEN R(-1) ELSE Zero,
      IF "Down" \in keys THEN R(1) ELSE IF "Up" \in keys THEN R(-1) ELSE Zero>>

\* delta_pos of handle_key_events, as <<x, y>>
DeltaPos(keys) ==
    <<IF "Left" \in keys THEN R(-1) ELSE IF "Right" \in keys THEN R(1) ELSE Zero,
      IF "Up" \in keys THEN R(-1) ELSE IF "Down" \in keys THEN R(1) ELSE Zero>>

\* The body of handle_key_events once a direction was intercepted.
PanBy(s, delta_pos) ==
    request_render_update(update_object_pose(RebuildScale(
        [s EXCEPT !.camera_pos_x_ = RSub(@, RAdd(delta_pos[1], s.scale_.tx)),
                  !.camera_pos_y_ = RSub(@, RAdd(delta_pos[2], s.scale_.ty))])))

\* handle_key_events that pans without looking at the Control modifier.
handle_key_events_unmodified(s, keys) ==
    IF keys \cap ArrowKeys # {}
    THEN PanBy(s, DeltaPos(keys))
    ELSE s

\* Camera::handle_key_events; keys is the set of keys held down.
handle_key_events(s, keys) ==
    IF "Control" \in keys /\ keys \cap ArrowKeys # {}
    THEN PanBy(s, DeltaPos(keys))
    ELSE s

\* Camera::update
update(s, keys) == handle_key_events(s, keys)

\* key_press_event that looks at Minus before Plus.
key_press_event_minus_first(s, keys) ==
    IF "Control" \notin keys THEN [scene |-> s, code |-> "IGNORED"]
    ELSE IF "Minus" \in keys
         THEN [scene |-> scale_at(s, Vec4(Zero, Zero, One), -1),
               code |-> "INTERCEPTED"]
    ELSE IF "Plus" \in keys
         THEN [scene |-> scale_at(s, Vec4(Zero, Zero, One), 1),
               code |-> "INTERCEPTED"]
    ELSE IF keys \cap ArrowKeys # {}
         THEN [scene |-> s, code |-> "INTERCEPTED"]
    ELSE [scene |-> s, code |-> "IGNORED"]

\* Camera::key_press_event: the scene it leaves and the code it returns.
key_press_event(s, keys) ==
    IF "Control" \notin keys THEN [scene |-> s, code |-> "IGNORED"]
    ELSE IF "Plus" \in keys
         THEN [scene |-> scale_at(s, Vec4(Zero, Zero, One), 1),
               code |-> "INTERCEPTED"]
    ELSE IF "Minus" \in keys
         THEN [scene |-> scale_at(s, Vec4(Zero, Zero, One), -1),
               code |-> "INTERCEPTED"]
    ELSE IF keys \cap ArrowKeys # {}
         THEN [scene |-> s, code |-> "INTERCEPTED"]
    ELSE [scene |-> s, code |-> "IGNORED"]

\* buf_dim * 0.5f of move_to and get_position: every component is halved.
HalfDim(buf) == VecScalar(Vec4(R(buf.width), R(buf.height), One), <<1, 2>>)

\* The end of move_to: the pan takes over the transformed goal.
MoveToGoal(s, transformed_goal) ==
    update_object_pose(
        [s EXCEPT !.camera_pos_x_ = transformed_goal.x,
                  !.camera_pos_y_ = transformed_goal.y])

\* move_to once scale_ is rebuilt: the goal through scale_.inv() and the
\* buffer's pose.
MoveCentered(s, buf, centered_coord) ==
    MoveToGoal(s, MatVec(MatMul(MatInv(s.scale_), buf.pose), centered_coord))

\* Camera::move_to
move_to(s, buf, x, y) ==
    MoveCentered(RebuildScale(s), buf, VecSub(HalfDim(buf), Vec4(x, y, Zero)))

\* Camera::get_position
get_position(s, buf) ==
    VecSub(HalfDim(buf),
           MatVec(MatMul(MatInv(buf.pose), s.scale_),
                  Vec4(s.camera_pos_x_, s.camera_pos_y_, One)))

\* recenter_camera that keeps the pan (line 328 missing).
recenter_camera_keeps_pan(s, buf) ==
    update_object_pose(set_initial_zoom(s, buf))

\* Camera::recenter_camera
recenter_camera(s, buf) ==
    update_object_pose(
        set_initial_zoom([s EXCEPT !.camera_pos_x_ = Zero,
                                   !.camera_pos_y_ = Zero], buf))

\* mouse_drag_event with the pixel deltas taken through the zoom scale.
mouse_drag_event_scaled(s, mouse_x, mouse_y) ==
    update_object_pose(
        [s EXCEPT !.camera_pos_x_ = RAdd(@, RMul(s.scale_.a, R(mouse_x))),
                  !.camera_pos_y_ = RAdd(@, RMul(s.scale_.d, R(mouse_y)))])

\* mouse_drag_event that forgets update_object_pose.
mouse_drag_event_stale(s, mouse_x, mouse_y) ==
    [s EXCEPT !.camera_pos_x_ = RAdd(@, R(mouse_x)),
              !.camera_pos_y_ = RAdd(@, R(mouse_y))]

\* Camera::mouse_drag_event
mouse_drag_event(s, mouse_x, mouse_y) ==
    update_object_pose(
        [s EXCEPT !.camera_pos_x_ = RAdd(@, R(mouse_x)),
                  !.camera_pos_y_ = RAdd(@, R(mouse_y))])

\* Camera::operator=: every member but projection is taken from cam.
copy_assign(s, cam) ==
    update_object_pose(
        [s EXCEPT !.zoom_power_ = cam.zoom_power_,
                  !.camera_pos_x_ = cam.camera_pos_x_,
                  !.camera_pos_y_ = cam.camera_pos_y_,
                  !.canvas_width_ = cam.canvas_width_,
                  !.canvas_height_ = cam.canvas_height_,
                  !.scale_ = cam.scale_])

\* Camera::Camera(const Camera&): the members operator= takes, in a camera
\* whose projection is default-constructed (fresh).
copy_construct(cam, fresh) ==
    update_object_pose([cam EXCEPT !.projection = fresh])

----------------------------------------------------------------------------
(* MainWindow::initialize_settings (initialization.cpp): the frame rate.    *)
(* A settings entry and a double are records [kind, val]: a "number" with   *)
(* its value, "inf" with its sign in val, or "nan"; an entry may also be    *)
(* "missing", or a "text" that is not a number.                             *)

Num(x) == [kind |-> "number", val |-> x]

NaN == [kind |-> "nan", val |-> Zero]

Inf(sign) == [kind |-> "inf", val |-> R(sign)]

MissingEntry == [kind |-> "missing", val |-> Zero]

TextEntry == [kind |-> "text", val |-> Zero]

\* render_framerate_ before initialize_settings has assigned it.
Unset == [kind |-> "unset", val |-> Zero]

DefaultFramerate == 60

\* settings.value("Rendering/maximum_framerate", 60)
settings_value(stored) ==
    IF stored.kind = "missing" THEN Num(R(DefaultFramerate)) ELSE stored

\* QVariant::value<double>(): a number, "inf" and "nan" convert to
\* themselves, anything else to 0.
value_double(v) == IF v.kind = "text" THEN Num(Zero) ELSE v

\* d <= 0.f on doubles: false when d is NaN.
LeZero(d) ==
    \/ d.kind = "number" /\ RLe(d.val, Zero)
    \/ d.kind = "inf" /\ RLt(d.val, Zero)

\* MainWindow::initialize_settings, the frame rate part.
initialize_settings(mw) ==
    [mw EXCEPT !.render_framerate_ =
                   IF LeZero(value_double(settings_value(mw.stored)))
                   THEN Num(One)
                   ELSE value_double(settings_value(mw.stored)),
               !.initialized = TRUE]

\* The main window before initialize_settings, with its settings file.
NewMainWindow(stored) ==
    [stored |-> stored, render_framerate_ |-> Unset, initialized |-> FALSE]

----------------------------------------------------------------------------
(* The host: construction, then the events it dispatches to the camera.    *)

NoCall == [op |-> "none"]

NoRun == [kind |-> "none"]

\* The run of zooms at the NDC origin after one more of them, by delta.
ZoomRun(delta) ==
    IF run.kind = "zoom"
    THEN [run EXCEPT !.sum_x = @ + delta]
    ELSE [kind |-> "zoom", start |-> scene, sum_x |-> delta, sum_y |-> 0]

\* The run of drags after one more of them, by (dx, dy).
DragRun(dx, dy) ==
    IF run.kind = "drag"
    THEN [run EXCEPT !.sum_x = @ + dx, !.sum_y = @ + dy]
    ELSE [kind |-> "drag", start |-> scene, sum_x |-> dx, sum_y |-> dy]

IsOrigin(ndc) == ndc.x = Zero /\ ndc.y = Zero

\* The frame before an event: the render request of the last one is served.
Served == [scene EXCEPT !.render_requested = FALSE]

\* Camera::Camera(GameObject*, GLCanvas*): canvas size 0 x 0, no zoom, no pan.
Init ==
    /\ scene = [zoom_power_ |-> 0, camera_pos_x_ |-> Zero, camera_pos_y_ |-> Zero,
                canvas_width_ |-> 0, canvas_height_ |-> 0,
                scale_ |-> Identity, projection |-> Identity,
                pose |-> Identity, render_requested |-> FALSE]
    /\ \E cs \in CanvasSizes :
          canvas = [width |-> cs[1], height |-> cs[2], mouse_x |-> 0, mouse_y |-> 0]
    /\ buffer \in Buffers
    /\ phase = "constructed"
    /\ last = NoCall
    /\ before = scene
    /\ run = NoRun
    /\ fit = [power |-> 0, sum |-> 0]
    /\ steps = 0
    /\ main_window = initialize_settings(NewMainWindow(MissingEntry))

\* The stage initializes the camera: Camera::post_initialize.
PostInitialize ==
    /\ phase = "constructed"
    /\ \E s \in {post_initialize(Served, canvas, buffer)} :
          /\ scene' = s
          /\ fit' = [power |-> s.zoom_power_, sum |-> 0]
    /\ phase' = "ready"
    /\ last' = [op |-> "post_initialize"]
    /\ before' = scene
    /\ run' = NoRun
    /\ UNCHANGED <<canvas, buffer, steps, main_window>>

\* The host dispatches one more event to the initialized camera.
Dispatch ==
    /\ phase = "ready"
    /\ steps < MaxSteps
    /\ steps' = steps + 1
    /\ before' = scene
    /\ UNCHANGED <<buffer, phase, main_window>>

\* The canvas is resized and the host forwards Camera::window_resized.
WindowResized ==
    /\ Dispatch
    /\ \E cs \in CanvasSizes :
          /\ canvas' = [canvas EXCEPT !.width = cs[1], !.height = cs[2]]
          /\ scene' = window_resized(Served, cs[1], cs[2])
          /\ last' = [op |-> "window_resized", w |-> cs[1], h |-> cs[2]]
    /\ run' = NoRun
    /\ UNCHANGED fit

\* Camera::scale_at(center_ndc, delta)
ScaleAt ==
    /\ Dispatch
    /\ \E z \in Zooms :
          /\ scene.zoom_power_ + z.delta \in -MaxPow .. MaxPow
          /\ scene' = scale_at(Served, z.ndc, z.delta)
          /\ last' = [op |-> "scale_at", ndc |-> z.ndc, delta |-> z.delta]
          /\ run' = IF IsOrigin(z.ndc) THEN ZoomRun(z.delta) ELSE NoRun
          /\ fit' = [fit EXCEPT !.sum = @ + z.delta]
    /\ UNCHANGED canvas

\* The wheel is scrolled at some mouse position: Camera::scroll_callback(delta)
ScrollCallback ==
    /\ Dispatch
    /\ \E e \in Scrolls :
       \E cv \in {[canvas EXCEPT !.mouse_x = e.mouse_x, !.mouse_y = e.mouse_y]} :
       \E ndc \in {MouseNdc(cv)} :
          /\ scene.zoom_power_ + e.delta \in -MaxPow .. MaxPow
          /\ canvas' = cv
          /\ scene' = scroll_callback(Served, cv, e.delta)
          /\ last' = [op |-> "scroll_callback", ndc |-> ndc, delta |-> e.delta]
          /\ run' = IF IsOrigin(ndc) THEN ZoomRun(e.delta) ELSE NoRun
          /\ fit' = [fit EXCEPT !.sum = @ + e.delta]

\* Camera::key_press_event with one of the keyboard states of sets.
KeyPressOf(sets) ==
    /\ Dispatch
    /\ \E keys \in sets :
       \E r \in {key_press_event(Served, keys)} :
       \E d \in {r.scene.zoom_power_ - scene.zoom_power_} :
          /\ r.scene.zoom_power_ \in -MaxPow .. MaxPow
          /\ scene' = r.scene
          /\ last' = [op |-> "key_press_event", keys |-> keys, code |-> r.code]
          /\ run' = IF d # 0 THEN ZoomRun(d) ELSE NoRun
          /\ fit' = [fit EXCEPT !.sum = @ + d]
    /\ UNCHANGED canvas

\* A key is pressed: Camera::key_press_event
KeyPressEvent == KeyPressOf(KeySets)

\* Camera::update with one of the keyboard states of sets.
UpdateOf(sets) ==
    /\ Dispatch
    /\ \E keys \in sets :
          /\ scene' = update(Served, keys)
          /\ last' = [op |-> "update", keys |-> keys]
    /\ run' = NoRun
    /\ UNCHANGED <<canvas, fit>>

\* A frame of the update loop: Camera::update
Update == UpdateOf(KeySets)

\* The mouse is dragged: Camera::mouse_drag_event
MouseDragEvent ==
    /\ Dispatch
    /\ \E d \in Drags :
          /\ scene' = mouse_drag_event(Served, d[1], d[2])
          /\ last' = [op |-> "mouse_drag_event", dx |-> d[1], dy |-> d[2]]
          /\ run' = DragRun(d[1], d[2])
    /\ UNCHANGED <<canvas, fit>>

\* Camera::move_to
MoveTo ==
    /\ Dispatch
    /\ \E t \in Targets :
          /\ scene' = move_to(Served, buffer, t[1], t[2])
          /\ last' = [op |-> "move_to", x |-> t[1], y |-> t[2]]
    /\ run' = NoRun
    /\ UNCHANGED <<canvas, fit>>

\* Camera::recenter_camera
RecenterCamera ==
    /\ Dispatch
    /\ \E s \in {recenter_camera(Served, buffer)} :
          /\ scene' = s
          /\ fit' = [power |-> s.zoom_power_, sum |-> 0]
    /\ last' = [op |-> "recenter_camera"]
    /\ run' = NoRun
    /\ UNCHANGED canvas

Next ==
    \/ PostInitialize
    \/ WindowResized
    \/ ScaleAt
    \/ ScrollCallback
    \/ KeyPressEvent
    \/ Update
    \/ MouseDragEvent
    \/ MoveTo
    \/ RecenterCamera

Spec == Init /\ [][Next]_vars

----------------------------------------------------------------------------
(* Properties of the camera.                                               *)

ZoomCalls == {"scale_at", "scroll_callback"}

\* The point an NDC anchor maps to through pose * projection.inv().
AnchorWorld(s, ndc) == MatVec(VpInv(s), ndc)

\* C1: once the camera is initialized, after any sequence of camera calls
\* the translation entries of scale_ are zero, and so are its off-diagonal
\* entries: scale_ is a pure diagonal scale.
ScaleIsPureDiagonal ==
    phase = "ready" =>
        /\ scene.scale_.tx = Zero /\ scene.scale_.ty = Zero
        /\ scene.scale_.b = Zero /\ scene.scale_.c = Zero

\* A zoom away from the origin with the camera panned: the recomposed scale
\* matrix carried a translation, which moved into the pan.
ScaleTranslationFolded ==
    /\ last.op \in ZoomCalls
    /\ ~IsOrigin(last.ndc)
    /\ scene.camera_pos_x_ # before.camera_pos_x_
    /\ scene.camera_pos_y_ # before.camera_pos_y_
    /\ scene.scale_.tx = Zero

\* C2: scale_at(center_ndc, delta) keeps the anchor fixed: the point that
\* center_ndc maps to through pose * projection.inv() is the same before and
\* after the call, for every anchor and delta.
AnchorStaysFixed ==
    last.op \in ZoomCalls =>
        AnchorWorld(scene, last.ndc) = AnchorWorld(before, last.ndc)

\* A zoom anchored away from the origin that changed the pose and the pan.
AnchoredZoomMovedCamera ==
    /\ last.op \in ZoomCalls
    /\ ~IsOrigin(last.ndc)
    /\ before.camera_pos_x_ # Zero
    /\ scene.pose # before.pose
    /\ scene.camera_pos_x_ # before.camera_pos_x_

\* C3 as stated: after any sequence of scale_at calls, compute_zoom() equals
\* zoom_factor raised to the sum of all deltas applied.
ZoomIsPowerOfDeltaSum ==
    last.op \in ZoomCalls => compute_zoom(scene) = RPow(zoom_factor, fit.sum)

\* C3 as amended: after any sequence of camera calls, compute_zoom() equals
\* zoom_factor raised to the zoom power the last auto-fit chose plus the sum
\* of all deltas scale_at applied since.
ZoomIsPowerOfFitPlusDeltaSum ==
    phase = "ready" =>
        compute_zoom(scene) = RPow(zoom_factor, fit.power + fit.sum)

\* Zooms after an auto-fit that chose a zoom power other than 0.
ZoomedAfterNonZeroFit ==
    /\ last.op \in ZoomCalls
    /\ fit.power # 0
    /\ fit.sum # 0
    /\ fit.sum # last.delta

\* C4: move_to(x, y) followed by get_position() returns (x, y) in its x and y
\* components, for any buffer extents, buffer pose and zoom level.
MoveToRoundTrip ==
    last.op = "move_to" =>
        /\ get_position(scene, buffer).x = last.x
        /\ get_position(scene, buffer).y = last.y

\* The buffer's extents in world units, scaled by zoom_factor^p, fit the
\* canvas the camera recorded.
FitsCanvas(s, p) ==
    /\ RLe(RMul(RPow(zoom_factor, p), BufDim(buffer)[1]), R(s.canvas_width_))
    /\ RLe(RMul(RPow(zoom_factor, p), BufDim(buffer)[2]), R(s.canvas_height_))

FitCalls == {"post_initialize", "recenter_camera"}

\* C5: set_initial_zoom leaves zoom_power_ at a power p at which
\* the buffer fits the canvas (<=), and p + 1 does not fit.
AutoFitIsMaximal ==
    last.op \in FitCalls =>
        /\ FitsCanvas(scene, scene.zoom_power_)
        /\ ~FitsCanvas(scene, scene.zoom_power_ + 1)

\* C7: a run of scale_at calls anchored at the NDC origin whose deltas sum
\* to zero restores scale_, camera_pos_x_ and camera_pos_y_ to their values
\* before the run.
ZoomRunRestoresCamera ==
    run.kind = "zoom" /\ run.sum_x = 0 =>
        /\ scene.scale_ = run.start.scale_
        /\ scene.camera_pos_x_ = run.start.camera_pos_x_
        /\ scene.camera_pos_y_ = run.start.camera_pos_y_

\* A zoom in and back out at the origin, from a panned camera.
ZoomedInAndBackWhilePanned ==
    /\ run.kind = "zoom"
    /\ run.sum_x = 0
    /\ run.start.camera_pos_x_ # Zero
    /\ before.scale_ # scene.scale_

PoseInSync ==
    phase = "ready" => scene.pose = ObjectPose(scene)

\* A drag has moved the camera and the pose with it.
DragMovedPose ==
    /\ last.op = "mouse_drag_event"
    /\ scene.pose # before.pose
    /\ before.zoom_power_ # 0

\* The camera parameters a call has changed.
CameraChanged ==
    \/ scene.zoom_power_ # before.zoom_power_
    \/ scene.camera_pos_x_ # before.camera_pos_x_
    \/ scene.camera_pos_y_ # before.camera_pos_y_
    \/ scene.scale_ # before.scale_

MutatingCalls ==
    {"scale_at", "scroll_callback", "key_press_event", "update",
     "mouse_drag_event", "move_to", "recenter_camera"}

\* C10: on every Camera state change the Camera recomputes the pose and
\* requests a render before the call returns.
ChangeRequestsRender ==
    last.op \in MutatingCalls /\ CameraChanged =>
        /\ scene.pose = ObjectPose(scene)
        /\ scene.render_requested

\* The auto-fit result for the canvas size the camera has recorded.
FittedTo(s) ==
    /\ s.zoom_power_ =
          FitPower(R(s.canvas_width_), R(s.canvas_height_), BufDim(buffer))
    /\ s.scale_ = ZoomScale(RInv(RPow(zoom_factor, s.zoom_power_)))

\* C12: recenter_camera, in any reachable state, sets the camera position to
\* zero and zoom_power_ and scale_ to the auto-fit result for the current
\* canvas size and buffer extents, whatever the zoom and pan before; calling
\* it again changes nothing.
RecenterIsAutoFit ==
    last.op = "recenter_camera" =>
        /\ scene.camera_pos_x_ = Zero
        /\ scene.camera_pos_y_ = Zero
        /\ FittedTo(scene)
        /\ scene.pose = scene.scale_
        /\ recenter_camera(scene, buffer) = scene

\* A panned and zoomed camera has been recentred.
RecenteredFromPanAndZoom ==
    /\ last.op = "recenter_camera"
    /\ before.camera_pos_x_ # Zero
    /\ before.zoom_power_ # scene.zoom_power_

\* C13: window_resized(w, h) called again with the same (w, h) leaves the
\* camera as it is, and window_resized never changes zoom_power_, the camera
\* position, scale_ or the pose.
WindowResizedIsIdempotent ==
    last.op = "window_resized" =>
        /\ window_resized(scene, last.w, last.h) = scene
        /\ scene.zoom_power_ = before.zoom_power_
        /\ scene.camera_pos_x_ = before.camera_pos_x_
        /\ scene.camera_pos_y_ = before.camera_pos_y_
        /\ scene.scale_ = before.scale_
        /\ scene.pose = before.pose

\* A panned camera has seen the canvas change its size.
ResizedWhilePanned ==
    /\ last.op = "window_resized"
    /\ scene.canvas_width_ # before.canvas_width_
    /\ scene.projection # before.projection
    /\ scene.camera_pos_x_ # Zero

\* C15: post_initialize applies window_resized with the canvas's current
\* width and height before set_initial_zoom and then recomputes the pose: after
\* it canvas_width_ / canvas_height_ are the canvas's size, never the 0 x 0 of
\* the constructor, and the zoom is the auto-fit result for that size.
PostInitializeFitsCurrentCanvas ==
    last.op = "post_initialize" =>
        /\ scene.canvas_width_ = canvas.width
        /\ scene.canvas_height_ = canvas.height
        /\ scene.canvas_width_ > 0 /\ scene.canvas_height_ > 0
        /\ scene.projection =
              Ortho(RDiv(R(canvas.width), R(2)), RDiv(R(canvas.height), R(2)))
        /\ scene.zoom_power_ =
              FitPower(R(canvas.width), R(canvas.height), BufDim(buffer))
        /\ FittedTo(scene)
        /\ scene.pose = ObjectPose(scene)

\* post_initialize has fitted the buffer to a canvas that is not square.
InitializedOnOblongCanvas ==
    /\ last.op = "post_initialize"
    /\ before.canvas_width_ = 0
    /\ canvas.width # canvas.height
    /\ scene.zoom_power_ # 0

RebuildCalls == {"update", "move_to"}

\* C17: in every state after post_initialize the diagonal entries scale_(0,0)
\* and scale_(1,1) both equal 1 / compute_zoom() and are strictly positive;
\* so the calls that rebuild scale_ from compute_zoom() (keyboard pan,
\* move_to) leave scale_ as it was.
ScaleMatchesZoomPower ==
    phase = "ready" =>
        /\ scene.scale_.a = RInv(compute_zoom(scene))
        /\ scene.scale_.d = RInv(compute_zoom(scene))
        /\ RGt(scene.scale_.a, Zero)
        /\ last.op \in RebuildCalls => scene.scale_ = before.scale_

\* scale_ was rebuilt by move_to or a keyboard pan after zooms that left the
\* fitted power.
RebuiltAfterZoom ==
    /\ last.op \in RebuildCalls
    /\ fit.sum # 0
    /\ scene.zoom_power_ # 0
    /\ scene.camera_pos_x_ # before.camera_pos_x_

-----------------------------------------------------------------------------
\* Camera::set_initial_zoom, one loop iteration at a time.  phase is the
\* position in the function, steps counts the iterations of its loops.

FitSizes == MinFitSize .. MaxFitSize

\* Zoom powers the camera may hold when set_initial_zoom is called.
PriorPowers == {0, 2}

CanvasW == R(scene.canvas_width_)
CanvasH == R(scene.canvas_height_)

FitInit ==
    /\ \E w \in FitSizes, h \in FitSizes, p \in PriorPowers :
          /\ canvas = [width |-> w, height |-> h, mouse_x |-> 0, mouse_y |-> 0]
          /\ scene = update_object_pose(RebuildScale(window_resized(
                        [zoom_power_ |-> p,
                         camera_pos_x_ |-> Zero, camera_pos_y_ |-> Zero,
                         canvas_width_ |-> 0, canvas_height_ |-> 0,
                         scale_ |-> Identity, projection |-> Identity,
                         pose |-> Identity, render_requested |-> FALSE], w, h)))
    /\ buffer \in Buffers
    /\ phase = "fit_start"
    /\ last = [op |-> "set_initial_zoom"]
    /\ before = scene
    /\ run = NoRun
    /\ fit = [power |-> 0, sum |-> 0]
    /\ steps = 0
    /\ main_window = initialize_settings(NewMainWindow(MissingEntry))

FitFrame == UNCHANGED <<canvas, buffer, last, before, run, fit, main_window>>

\* Lines 252-254: the buffer is smaller than the canvas, zoom in.
FitZoomIn ==
    /\ phase = "fit_start"
    /\ InsideCanvas(One, CanvasW, CanvasH, BufDim(buffer))
    /\ scene' = [scene EXCEPT !.zoom_power_ = 1]
    /\ phase' = "zoom_in"
    /\ UNCHANGED steps
    /\ FitFrame

\* Lines 268-270: the buffer is larger than the canvas, zoom out.
FitZoomOut ==
    /\ phase = "fit_start"
    /\ ~InsideCanvas(One, CanvasW, CanvasH, BufDim(buffer))
    /\ OutsideCanvas(One, CanvasW, CanvasH, BufDim(buffer))
    /\ scene' = [scene EXCEPT !.zoom_power_ = -1]
    /\ phase' = "zoom_out"
    /\ UNCHANGED steps
    /\ FitFrame

\* Neither branch: zoom_power_ stays at the 0 of line 247.
FitAsIs ==
    /\ phase = "fit_start"
    /\ ~InsideCanvas(One, CanvasW, CanvasH, BufDim(buffer))
    /\ ~OutsideCanvas(One, CanvasW, CanvasH, BufDim(buffer))
    /\ scene' = [scene EXCEPT !.zoom_power_ = 0]
    /\ phase' = "fit_scale"
    /\ UNCHANGED steps
    /\ FitFrame

\* Lines 260-264: one iteration of the zoom-in loop.
ZoomInStep ==
    /\ phase = "zoom_in"
    /\ ZoomInCond(scene.zoom_power_, CanvasW, CanvasH, BufDim(buffer))
    /\ scene' = [scene EXCEPT !.zoom_power_ = @ + 1]
    /\ steps' = steps + 1
    /\ UNCHANGED phase
    /\ FitFrame

\* Lines 260-267: the zoom-in loop ends and zoom_power_ steps back.
ZoomInExit ==
    /\ phase = "zoom_in"
    /\ ~ZoomInCond(scene.zoom_power_, CanvasW, CanvasH, BufDim(buffer))
    /\ scene' = [scene EXCEPT !.zoom_power_ = @ - 1]
    /\ phase' = "fit_scale"
    /\ UNCHANGED steps
    /\ FitFrame

\* Lines 274-278: one iteration of the zoom-out loop.
ZoomOutStep ==
    /\ phase = "zoom_out"
    /\ ZoomOutCond(scene.zoom_power_, CanvasW, CanvasH, BufDim(buffer))
    /\ scene' = [scene EXCEPT !.zoom_power_ = @ - 1]
    /\ steps' = steps + 1
    /\ UNCHANGED phase
    /\ FitFrame

\* Lines 274-279: the zoom-out loop ends.
ZoomOutExit ==
    /\ phase = "zoom_out"
    /\ ~ZoomOutCond(scene.zoom_power_, CanvasW, CanvasH, BufDim(buffer))
    /\ phase' = "fit_scale"
    /\ UNCHANGED <<scene, steps>>
    /\ FitFrame

\* Lines 281-282: scale_ is rebuilt and the function returns.
FitRebuild ==
    /\ phase = "fit_scale"
    /\ scene' = RebuildScale(scene)
    /\ phase' = "fit_done"
    /\ UNCHANGED steps
    /\ FitFrame

FitNext ==
    \/ FitZoomIn
    \/ FitZoomOut
    \/ FitAsIs
    \/ ZoomInStep
    \/ ZoomInExit
    \/ ZoomOutStep
    \/ ZoomOutExit
    \/ FitRebuild

\* The function runs on one thread and nothing suspends it: a step that can
\* be taken is taken.
FitSpec == FitInit /\ [][FitNext]_vars /\ WF_vars(FitNext)

\* Each loop moves zoom_power_ one unit per iteration, in its own direction.
LoopsAreMonotonic ==
    /\ phase = "zoom_in" /\ phase' = "zoom_in" =>
          scene'.zoom_power_ = scene.zoom_power_ + 1
    /\ phase = "zoom_out" /\ phase' = "zoom_out" =>
          scene'.zoom_power_ = scene.zoom_power_ - 1

\* After n iterations zoom_factor^n is below the canvas/buffer ratio in both
\* directions (zoom-in), or below the buffer/canvas ratio in one (zoom-out).
StepsWithinRatio ==
    /\ phase = "zoom_in" =>
          InsideCanvas(RPow(zoom_factor, steps), CanvasW, CanvasH, BufDim(buffer))
    /\ phase = "zoom_out" =>
          OutsideCanvas(RPow(zoom_factor, -steps), CanvasW, CanvasH, BufDim(buffer))

\* What set_initial_zoom returns with depends on canvas and extents only.
FitResultIsFunctionOfSizes ==
    phase = "fit_done" =>
        /\ scene.zoom_power_ = FitPower(CanvasW, CanvasH, BufDim(buffer))
        /\ scene.scale_ = ZoomScale(RInv(RPow(zoom_factor, scene.zoom_power_)))

\* C6: set_initial_zoom terminates for every positive canvas size and buffer
\* extents; each loop moves zoom_power_ strictly in one direction, for a
\* number of steps bounded by the canvas/buffer size ratio; the result is a
\* function of canvas size and buffer extents only.
SetInitialZoomTerminates ==
    /\ <>(phase = "fit_done")
    /\ [][LoopsAreMonotonic]_vars
    /\ [](StepsWithinRatio /\ FitResultIsFunctionOfSizes)

\* set_initial_zoom has returned after iterating a loop more than once, from
\* a camera that held another zoom power.
FitLoopIterated ==
    /\ phase = "fit_done"
    /\ steps >= 2
    /\ before.zoom_power_ # 0
    /\ scene.zoom_power_ # 0

-----------------------------------------------------------------------------
\* The keyboard: after a drag, key presses and frames of the update loop under
\* every state of the keys the camera looks at.

Keys == {"Control", "Plus", "Minus", "Left", "Right", "Up", "Down"}

AllKeySets == SUBSET Keys

\* The first event is a drag, so that the camera is panned.
KeyPrelude ==
    /\ steps = 0
    /\ MouseDragEvent

AnyKeyPress ==
    /\ steps \in 1 .. MaxKeySteps
    /\ KeyPressOf(AllKeySets)

AnyUpdate ==
    /\ steps \in 1 .. MaxKeySteps
    /\ UpdateOf(AllKeySets)

KeyNext ==
    \/ PostInitialize
    \/ KeyPrelude
    \/ AnyKeyPress
    \/ AnyUpdate

KeySpec == Init /\ [][KeyNext]_vars

\* The keyboard state makes handle_key_events pan.
PanKeysHeld(keys) == "Control" \in keys /\ keys \cap ArrowKeys # {}

\* C11: update() requests a render if and only if Control is held and at
\* least one arrow key is pressed; in every other case it leaves zoom_power_,
\* the camera position, scale_ and the pose unchanged.
UpdateRendersIffPanKeys ==
    last.op = "update" =>
        /\ scene.render_requested <=> PanKeysHeld(last.keys)
        /\ ~PanKeysHeld(last.keys) =>
              /\ scene.zoom_power_ = before.zoom_power_
              /\ scene.camera_pos_x_ = before.camera_pos_x_
              /\ scene.camera_pos_y_ = before.camera_pos_y_
              /\ scene.scale_ = before.scale_
              /\ scene.pose = before.pose

\* A frame with Control and opposite arrows held has requested a render.
PanFrameRequestedRender ==
    /\ last.op = "update"
    /\ {"Control", "Up", "Down"} \subseteq last.keys
    /\ scene.render_requested
    /\ scene.pose # before.pose

\* The camera as the call before the last one left it, its render request
\* served.
Before == [before EXCEPT !.render_requested = FALSE]

ScreenCenter == Vec4(Zero, Zero, One)

\* C14: with Control held, key_press_event zooms once at the NDC origin, by
\* +1 if Plus is pressed and by -1 if Minus is pressed and Plus is not, and
\* returns INTERCEPTED; with Control held and only arrow keys pressed it
\* returns INTERCEPTED and changes nothing; with Control not held, or none of
\* these keys pressed, it returns IGNORED and changes nothing.
KeyPressIntercepts ==
    last.op = "key_press_event" =>
        IF "Control" \in last.keys /\ "Plus" \in last.keys
        THEN /\ last.code = "INTERCEPTED"
             /\ scene = scale_at(Before, ScreenCenter, 1)
             /\ scene.zoom_power_ = before.zoom_power_ + 1
        ELSE IF "Control" \in last.keys /\ "Minus" \in last.keys
        THEN /\ last.code = "INTERCEPTED"
             /\ scene = scale_at(Before, ScreenCenter, -1)
             /\ scene.zoom_power_ = before.zoom_power_ - 1
        ELSE /\ scene = Before
             /\ last.code =
                   IF "Control" \in last.keys /\ last.keys \cap ArrowKeys # {}
                   THEN "INTERCEPTED" ELSE "IGNORED"

\* Control, Plus and Minus were held together and the camera zoomed in.
PlusWonOverMinus ==
    /\ last.op = "key_press_event"
    /\ {"Control", "Plus", "Minus"} \subseteq last.keys
    /\ last.code = "INTERCEPTED"
    /\ scene.zoom_power_ = before.zoom_power_ + 1
    /\ before.camera_pos_x_ # Zero

\* The step of the keyboard pan along one axis.
PanStep(first, second) ==
    IF first \in last.keys THEN R(1)
    ELSE IF second \in last.keys THEN R(-1)
    ELSE Zero

\* C16: in one update() with Control held, camera_pos_y_ changes by +1 if Up
\* is pressed, by -1 if Down is pressed and Up is not, and by 0 otherwise;
\* camera_pos_x_ changes by +1 if Left is pressed, by -1 if Right is pressed
\* and Left is not, and by 0 otherwise; zoom_power_ is unchanged and scale_ is
\* the pure diagonal scale(1 / compute_zoom()).
KeyboardPanStep ==
    last.op = "update" /\ "Control" \in last.keys =>
        /\ scene.camera_pos_x_ =
              RAdd(before.camera_pos_x_, PanStep("Left", "Right"))
        /\ scene.camera_pos_y_ =
              RAdd(before.camera_pos_y_, PanStep("Up", "Down"))
        /\ scene.zoom_power_ = before.zoom_power_
        /\ scene.scale_ = ZoomScale(RInv(compute_zoom(scene)))

\* A frame with Control and all four arrows held: Up and Left have won.
OppositeArrowsHeld ==
    /\ last.op = "update"
    /\ {"Control", "Up", "Down", "Left", "Right"} \subseteq last.keys
    /\ scene.camera_pos_x_ = RAdd(before.camera_pos_x_, One)
    /\ scene.camera_pos_y_ = RAdd(before.camera_pos_y_, One)
    /\ scene.zoom_power_ # 0

-----------------------------------------------------------------------------
\* Copies of the camera: the camera is assigned from, or replaced by a copy
\* of, a camera of the same stage.

\* The camera as its constructor leaves it.
NewCamera ==
    [zoom_power_ |-> 0, camera_pos_x_ |-> Zero, camera_pos_y_ |-> Zero,
     canvas_width_ |-> 0, canvas_height_ |-> 0,
     scale_ |-> Identity, projection |-> Identity,
     pose |-> Identity, render_requested |-> FALSE]

\* Initialized cameras to copy from, one for each canvas size.
OtherCameras ==
    {post_initialize(NewCamera,
                     [width |-> cs[1], height |-> cs[2],
                      mouse_x |-> 0, mouse_y |-> 0], buffer) : cs \in CanvasSizes}

\* What the projection member of a camera holds when nothing has set it.
FreshProjections ==
    {Identity} \cup
    {Ortho(RDiv(R(cs[1]), R(2)), RDiv(R(cs[2]), R(2))) : cs \in CanvasSizes}

\* camera = cam (Camera::operator=)
CopyAssign ==
    /\ Dispatch
    /\ \E cam \in OtherCameras :
       \E s \in {copy_assign(Served, cam)} :
          /\ scene' = s
          /\ fit' = [power |-> s.zoom_power_, sum |-> 0]
    /\ last' = [op |-> "copy_assign"]
    /\ run' = NoRun
    /\ UNCHANGED canvas

\* The camera is replaced by a copy of itself (Camera::Camera(const Camera&)).
CopyConstruct ==
    /\ Dispatch
    /\ \E fresh \in FreshProjections :
          scene' = copy_construct(Served, fresh)
    /\ last' = [op |-> "copy_construct"]
    /\ run' = NoRun
    /\ UNCHANGED <<canvas, fit>>

CopyNext ==
    \/ PostInitialize
    \/ WindowResized
    \/ ScaleAt
    \/ MouseDragEvent
    \/ CopyAssign
    \/ CopyConstruct

CopySpec == Init /\ [][CopyNext]_vars

\* C18: in every state after the first window_resized, states produced by
\* copy construction or copy assignment included, projection is the
\* orthographic projection for half-extents (canvas_width_ / 2,
\* canvas_height_ / 2).
ProjectionMatchesCanvas ==
    phase = "ready" =>
        scene.projection =
            Ortho(RDiv(R(scene.canvas_width_), R(2)),
                  RDiv(R(scene.canvas_height_), R(2)))

-----------------------------------------------------------------------------
\* MainWindow::initialize_settings under every settings file: the entry
\* Rendering/maximum_framerate is missing, a number, or some other text.

StoredNumbers == {Norm(n, d) : n \in -MaxRate .. MaxRate, d \in 1 .. 2}

StoredValues ==
    {MissingEntry, TextEntry, NaN, Inf(1), Inf(-1)}
        \cup {Num(x) : x \in StoredNumbers}

FrameInit ==
    /\ main_window \in {NewMainWindow(v) : v \in StoredValues}
    /\ scene = NewCamera
    /\ canvas = [width |-> 0, height |-> 0, mouse_x |-> 0, mouse_y |-> 0]
    /\ buffer = [width |-> 10, height |-> 10, pose |-> Identity]
    /\ phase = "constructed"
    /\ last = NoCall
    /\ before = scene
    /\ run = NoRun
    /\ fit = [power |-> 0, sum |-> 0]
    /\ steps = 0

\* MainWindow::initialize_settings, before any camera exists.
InitializeSettings ==
    /\ ~main_window.initialized
    /\ main_window' = initialize_settings(main_window)
    /\ UNCHANGED <<scene, canvas, buffer, phase, last, before, run, fit, steps>>

FrameNext == InitializeSettings

FrameSpec == FrameInit /\ [][FrameNext]_vars

\* d > 0 on doubles.
Positive(d) ==
    \/ d.kind = "number" /\ RGt(d.val, Zero)
    \/ d.kind = "inf" /\ RGt(d.val, Zero)

\* C19: after initialize_settings render_framerate_ is strictly positive for
\* every stored value of Rendering/maximum_framerate: a stored value <= 0
\* is replaced by 1.0, a positive one is kept, a missing one defaults to 60.
FramerateIsPositive ==
    main_window.initialized =>
        /\ Positive(main_window.render_framerate_)
        /\ LeZero(main_window.stored) =>
              main_window.render_framerate_ = Num(One)
        /\ Positive(main_window.stored) =>
              main_window.render_framerate_ = main_window.stored
        /\ main_window.stored = MissingEntry =>
              main_window.render_framerate_ = Num(R(DefaultFramerate))

\* The same for the stored values that are numbers, or missing.
FramerateIsPositiveForNumbers ==
    main_window.initialized /\ main_window.stored.kind \in {"number", "missing"}
        => Positive(main_window.render_framerate_)

=============================================================================
